---- MODULE Spec2Model ----
(***************************************************************************)
(* The Nexus of pomodouroboros.model.nexus: the time cursor, the streaks   *)
(* of intervals, the sessions, the intentions and the upcoming durations,  *)
(* with advanceToTime, startPomodoro, evaluatePomodoro, addIntention and   *)
(* addSession.  Each method is an operator from a Nexus value to the       *)
(* Nexus value it leaves behind, the listener calls it made and the error  *)
(* it raised (a Python exception leaves the assignments made before it).   *)
(* Times are epoch seconds; the model visits the multiples of Tick.        *)
(***************************************************************************)
EXTENDS Integers, Sequences, FiniteSets, TLC

\* ---------------------------------------------------------------- bounds
Tick == 100
MaxTicks == 3
MaxIntentions == 1
MaxSessions == 1
MaxPlanned == 3
MaxIntervals == 2

\* ------------------------------------------------------------- constants
SecondsPerMinute == 60
GraceDivisor == 3

NoTime == 0 - 1
NoError == "ok"
TimeBackwards == "AssertionError: Time cannot move backwards"
NoPreviousInterval == "AssertionError: if we are starting a new duration then we ought to be coming up on the back of an existing interval"
ActiveInPast == "AssertionError: Active interval should be in the present, not the past"
NotActive == "AssertionError: pomodoro is self._activeInterval"
NotCompleted == "AssertionError: evaluation was set, should be complete"
ZeroDivision == "ZeroDivisionError"

\* GameRules.streakIntervalDurations: (pomodoro, break) minutes, flattened
\* into Duration(Pomodoro, m*60), Duration(Break, m*60).
RuleMinutes == << <<5, 5>>, <<10, 5>>, <<20, 5>>, <<30, 10>> >>

Duration(intervalType, seconds) == [intervalType |-> intervalType, seconds |-> seconds]

streakIntervalDurations ==
    [k \in 1..(2 * Len(RuleMinutes)) |->
        IF k % 2 = 1
        THEN Duration("Pomodoro", RuleMinutes[(k + 1) \div 2][1] * SecondsPerMinute)
        ELSE Duration("Break", RuleMinutes[k \div 2][2] * SecondsPerMinute)]

\* -------------------------------------------------------------- intervals
NoEvaluation == [result |-> "None", timestamp |-> NoTime]

Evaluation(result, timestamp) == [result |-> result, timestamp |-> timestamp]

EvaluationResults == {"distracted", "interrupted", "focused", "achieved"}

\* The results the model's user gives: one that lets the pomodoro run on, and
\* achieved.
EvaluatedAs == {"focused", "achieved"}

\* The absence of an interval (Python's None).
NoInterval ==
    [intervalType |-> "None", startTime |-> NoTime, endTime |-> NoTime,
     originalPomEnd |-> NoTime, intention |-> 0, indexInStreak |-> 0,
     evaluation |-> NoEvaluation]

Pomodoro(intention, indexInStreak, startTime, endTime) ==
    [intervalType |-> "Pomodoro", startTime |-> startTime, endTime |-> endTime,
     originalPomEnd |-> NoTime, intention |-> intention,
     indexInStreak |-> indexInStreak, evaluation |-> NoEvaluation]

Break(startTime, endTime) ==
    [intervalType |-> "Break", startTime |-> startTime, endTime |-> endTime,
     originalPomEnd |-> NoTime, intention |-> 0, indexInStreak |-> 0,
     evaluation |-> NoEvaluation]

\* A grace period lasts a third of the pomodoro it stands in for: the story
\* test reports progress 0.01 two seconds into GracePeriod(10801, 11401).
GracePeriod(startTime, originalPomEnd) ==
    [intervalType |-> "GracePeriod", startTime |-> startTime,
     endTime |-> startTime + ((originalPomEnd - startTime) \div GraceDivisor),
     originalPomEnd |-> originalPomEnd, intention |-> 0, indexInStreak |-> 0,
     evaluation |-> NoEvaluation]

StartPrompt(startTime, endTime) ==
    [intervalType |-> "StartPrompt", startTime |-> startTime, endTime |-> endTime,
     originalPomEnd |-> NoTime, intention |-> 0, indexInStreak |-> 0,
     evaluation |-> NoEvaluation]

\* preludeIntervalMap: a Pomodoro duration is preceded by a GracePeriod, a
\* Break duration becomes the Break itself.
preludeIntervalMap(intervalType, startTime, endTime) ==
    IF intervalType = "Pomodoro"
    THEN GracePeriod(startTime, endTime)
    ELSE Break(startTime, endTime)

Session(start, end) == [start |-> start, end |-> end]

\* ---------------------------------------------------------- notifications
IntervalStart(interval) ==
    [kind |-> "intervalStart", interval |-> interval, num |-> 0, den |-> 1]

\* Mutant of IntervalProgress: the elapsed seconds are reported, not their
\* share of the interval.
IntervalProgressSeconds(current, total) ==
    [kind |-> "intervalProgress", interval |-> NoInterval, num |-> current, den |-> 1]

\* intervalProgress(min(1.0, current / total)), kept as a fraction.
IntervalProgress(current, total) ==
    IF current >= total
    THEN [kind |-> "intervalProgress", interval |-> NoInterval, num |-> 1, den |-> 1]
    ELSE [kind |-> "intervalProgress", interval |-> NoInterval, num |-> current, den |-> total]

IntervalEnd ==
    [kind |-> "intervalEnd", interval |-> NoInterval, num |-> 0, den |-> 1]

\* ------------------------------------------------------------------ state
\* nexus: the Nexus object.  last: the last call made on it and how it ended.
\* horizon: the latest time the caller will pass, MaxTicks ticks after the
\* cursor the Nexus was constructed with.  capacity: the number of intervals
\* the run may hold, MaxIntervals more than the Nexus was constructed with.
VARIABLES nexus, last, horizon, capacity

vars == <<nexus, last, horizon, capacity>>

\* The times the caller passes: the ticks up to the horizon.
Times == {horizon - k * Tick : k \in 0..MaxTicks}

Outcome(nx, notes, err) == [nx |-> nx, notes |-> notes, err |-> err]

Max(S) == CHOOSE x \in S : \A y \in S : y <= x

Min(S) == CHOOSE x \in S : \A y \in S : x <= y

\* Mutant of ActiveInterval: the check against the interval's end is missing.
ActiveIntervalUnexpired(n) ==
    IF n.streaks = <<>> THEN NoInterval
    ELSE LET currentStreak == n.streaks[Len(n.streaks)] IN
        IF currentStreak = <<>> THEN NoInterval
        ELSE LET candidateInterval == currentStreak[Len(currentStreak)]
                 now == n.lastUpdateTime IN
            IF now < candidateInterval.startTime THEN NoInterval
            ELSE candidateInterval

\* Nexus._activeInterval
ActiveInterval(n) ==
    IF n.streaks = <<>> THEN NoInterval
    ELSE LET currentStreak == n.streaks[Len(n.streaks)] IN
        IF currentStreak = <<>> THEN NoInterval
        ELSE LET candidateInterval == currentStreak[Len(currentStreak)]
                 now == n.lastUpdateTime IN
            IF now < candidateInterval.startTime THEN NoInterval
            ELSE IF now >= candidateInterval.endTime THEN NoInterval
            ELSE candidateInterval

\* Nexus.userInterface: the listener is built on first use and is then told
\* of the interval active at that moment.
UserInterface(n) ==
    IF n.userInterface
    THEN Outcome(n, <<>>, NoError)
    ELSE Outcome([n EXCEPT !.userInterface = TRUE],
                 IF ActiveInterval(n) # NoInterval
                 THEN <<IntervalStart(ActiveInterval(n))>>
                 ELSE <<>>,
                 NoError)

\* Mutant of AppendToLastStreak: the new interval is put in front.
InsertFirstInLastStreak(n, new) ==
    [n EXCEPT !.streaks[Len(n.streaks)] = <<new>> \o @]

\* Mutant of AppendToLastStreak: the new interval goes to the first streak.
AppendToFirstStreak(n, new) ==
    [n EXCEPT !.streaks[1] = Append(@, new)]

\* self._streaks[-1].append(new)
AppendToLastStreak(n, new) ==
    [n EXCEPT !.streaks[Len(n.streaks)] = Append(@, new)]

\* idealScore(self, session.start, session.end).nextPointLoss: the next time
\* at which points are lost, or None.  The calculator reads the Nexus only;
\* its answer is the caller-supplied nextPointLoss of the step.
idealScore(n, start, end, nextPointLoss) == [nextPointLoss |-> nextPointLoss]

\* Mutant of makeIt: a deadline that is not in the future is not turned down.
makeItAnyDeadline(n, timestamp, previouslyActive, nextPointLoss) ==
    IF n.upcomingDurations # <<>>
    THEN LET duration == Head(n.upcomingDurations)
             n1 == [n EXCEPT !.upcomingDurations = Tail(@)] IN
        IF previouslyActive = NoInterval
        THEN [nx |-> n1, new |-> NoInterval, err |-> NoPreviousInterval]
        ELSE [nx |-> n1,
              new |-> preludeIntervalMap(duration.intervalType,
                                         previouslyActive.endTime,
                                         previouslyActive.endTime + duration.seconds),
              err |-> NoError]
    ELSE LET covering == {k \in 1..Len(n.sessions) :
                            n.sessions[k].start <= timestamp /\ timestamp < n.sessions[k].end} IN
        IF covering = {} THEN [nx |-> n, new |-> NoInterval, err |-> NoError]
        ELSE LET session == n.sessions[Min(covering)]
                 nextDrop == idealScore(n, session.start, session.end, nextPointLoss).nextPointLoss IN
            IF nextDrop = NoTime THEN [nx |-> n, new |-> NoInterval, err |-> NoError]
            ELSE [nx |-> n, new |-> StartPrompt(timestamp, nextDrop), err |-> NoError]

\* makeIt() of Nexus._makeNextInterval: the interval to activate, if any.
makeIt(n, timestamp, previouslyActive, nextPointLoss) ==
    IF n.upcomingDurations # <<>>
    THEN LET duration == Head(n.upcomingDurations)
             n1 == [n EXCEPT !.upcomingDurations = Tail(@)] IN
        IF previouslyActive = NoInterval
        THEN [nx |-> n1, new |-> NoInterval, err |-> NoPreviousInterval]
        ELSE [nx |-> n1,
              new |-> preludeIntervalMap(duration.intervalType,
                                         previouslyActive.endTime,
                                         previouslyActive.endTime + duration.seconds),
              err |-> NoError]
    ELSE LET covering == {k \in 1..Len(n.sessions) :
                            n.sessions[k].start <= timestamp /\ timestamp < n.sessions[k].end} IN
        IF covering = {} THEN [nx |-> n, new |-> NoInterval, err |-> NoError]
        ELSE LET session == n.sessions[Min(covering)]
                 nextDrop == idealScore(n, session.start, session.end, nextPointLoss).nextPointLoss IN
            IF nextDrop = NoTime THEN [nx |-> n, new |-> NoInterval, err |-> NoError]
            ELSE IF nextDrop <= timestamp THEN [nx |-> n, new |-> NoInterval, err |-> NoError]
            ELSE [nx |-> n, new |-> StartPrompt(timestamp, nextDrop), err |-> NoError]

\* The end of Nexus._makeNextInterval: what makeIt() returned is appended to
\* the last streak and the listener is told it started.
activate(notes, made) ==
    IF made.err # NoError THEN Outcome(made.nx, notes, made.err)
    ELSE IF made.new # NoInterval
    THEN Outcome(AppendToLastStreak(made.nx, made.new),
                 notes \o <<IntervalStart(made.new)>>, NoError)
    ELSE Outcome(made.nx, notes, NoError)

\* Nexus._makeNextInterval after `ui = self.userInterface`.
makeNextWithUI(ui, previouslyActive, nextPointLoss) ==
    activate(ui.notes, makeIt(ui.nx, ui.nx.lastUpdateTime, previouslyActive, nextPointLoss))

\* Nexus._makeNextInterval
makeNextInterval(n, newTime, previouslyActive, nextPointLoss) ==
    makeNextWithUI(UserInterface(n), previouslyActive, nextPointLoss)

\* A grace period that expires ends the streak: no duration is upcoming and
\* a new empty streak is the current one.
expire(n, interval) ==
    IF interval.intervalType = "GracePeriod"
    THEN [n EXCEPT !.upcomingDurations = <<>>, !.streaks = Append(@, <<>>)]
    ELSE n

\* The while loop of Nexus.advanceToTime: advanceLoop tests the loop
\* condition, progressInterval is the loop body once the listener is at
\* hand, continueLoop goes round again after _makeNextInterval.
RECURSIVE advanceLoop(_, _, _, _, _)
RECURSIVE loopBody(_, _, _, _, _, _)
RECURSIVE progressInterval(_, _, _, _, _)
RECURSIVE continueLoop(_, _, _, _, _)

continueLoop(next, notes, newTime, interval, nextPointLoss) ==
    IF next.err # NoError
    THEN Outcome(next.nx, notes \o next.notes, next.err)
    ELSE advanceLoop(next.nx, notes \o next.notes, newTime, interval, nextPointLoss)

progressInterval(ui, notes, newTime, interval, nextPointLoss) ==
    IF newTime >= interval.endTime
    THEN continueLoop(makeNextInterval(expire(ui.nx, interval), newTime, interval, nextPointLoss),
                      notes \o ui.notes
                            \o <<IntervalProgress(newTime - interval.startTime,
                                                  interval.endTime - interval.startTime),
                                 IntervalEnd>>,
                      newTime, interval, nextPointLoss)
    ELSE advanceLoop(ui.nx,
                     notes \o ui.notes
                           \o <<IntervalProgress(newTime - interval.startTime,
                                                 interval.endTime - interval.startTime)>>,
                     newTime, interval, nextPointLoss)

loopBody(n, notes, newTime, previousInterval, nextPointLoss, interval) ==
    IF interval = NoInterval \/ interval = previousInterval
    THEN Outcome(n, notes, NoError)
    ELSE IF interval.endTime - interval.startTime = 0
    THEN Outcome(n, notes, ZeroDivision)
    ELSE progressInterval(UserInterface(n), notes, newTime, interval, nextPointLoss)

advanceLoop(n, notes, newTime, previousInterval, nextPointLoss) ==
    loopBody(n, notes, newTime, previousInterval, nextPointLoss, ActiveInterval(n))

\* The closing assertion of Nexus.advanceToTime.
closingAssertion(looped) ==
    IF looped.err # NoError THEN looped
    ELSE IF ActiveInterval(looped.nx) = NoInterval
            \/ looped.nx.lastUpdateTime <= ActiveInterval(looped.nx).endTime
    THEN looped
    ELSE Outcome(looped.nx, looped.notes, ActiveInPast)

\* Nexus.advanceToTime once the first interval was bootstrapped.
advanceFrom(boot, newTime, nextPointLoss) ==
    IF boot.err # NoError THEN boot
    ELSE closingAssertion(advanceLoop(boot.nx, boot.notes, newTime, NoInterval, nextPointLoss))

\* Nexus.advanceToTime with the interval that was active before the cursor
\* moves: with none, the next interval is bootstrapped.
advanceWith(n, previouslyActiveInterval, newTime, nextPointLoss) ==
    IF previouslyActiveInterval = NoInterval
    THEN advanceFrom(makeNextInterval([n EXCEPT !.lastUpdateTime = newTime], newTime,
                                      previouslyActiveInterval, nextPointLoss),
                     newTime, nextPointLoss)
    ELSE advanceFrom(Outcome([n EXCEPT !.lastUpdateTime = newTime], <<>>, NoError),
                     newTime, nextPointLoss)

\* Mutant of advanceToTime: an earlier time is clamped to the cursor.
advanceToTimeClamping(n, newTime, nextPointLoss) ==
    IF ~(newTime >= n.lastUpdateTime)
    THEN advanceWith(n, ActiveInterval(n), n.lastUpdateTime, nextPointLoss)
    ELSE advanceWith(n, ActiveInterval(n), newTime, nextPointLoss)

\* Mutant of advanceToTime: the assertion on the new time is missing.
advanceToTimeUnchecked(n, newTime, nextPointLoss) ==
    advanceWith(n, ActiveInterval(n), newTime, nextPointLoss)

\* Nexus.advanceToTime
advanceToTime(n, newTime, nextPointLoss) ==
    IF ~(newTime >= n.lastUpdateTime) THEN Outcome(n, <<>>, TimeBackwards)
    ELSE advanceWith(n, ActiveInterval(n), newTime, nextPointLoss)

\* ------------------------------------------------------------- intentions
Estimate(duration, madeAt) == [duration |-> duration, madeAt |-> madeAt]

Intention(id, created, modified) ==
    [id |-> id, created |-> created, modified |-> modified, estimates |-> <<>>,
     pomodoros |-> <<>>, abandoned |-> FALSE]

\* A Pomodoro object is named by where it sits: streak number and position.
PomodoroRef(streak, index) == [streak |-> streak, index |-> index]

PomodoroAt(n, ref) == n.streaks[ref.streak][ref.index]

\* Every Pomodoro held in some streak.
PomodoroRefs(n) ==
    UNION {{PomodoroRef(s, i) : i \in {j \in 1..Len(n.streaks[s]) :
                                          n.streaks[s][j].intervalType = "Pomodoro"}} :
           s \in 1..Len(n.streaks)}

\* Intention.completed: some pomodoro of the intention was evaluated achieved.
completed(n, k) ==
    \E j \in 1..Len(n.intentions[k].pomodoros) :
        PomodoroAt(n, n.intentions[k].pomodoros[j]).evaluation.result = "achieved"

\* The position in n.intentions of the intention with the given id (0: none).
IntentionIndex(n, id) ==
    IF \E k \in 1..Len(n.intentions) : n.intentions[k].id = id
    THEN CHOOSE k \in 1..Len(n.intentions) : n.intentions[k].id = id
    ELSE 0

\* Mutant of availableIntentions: completed intentions stay listed.
availableIntentionsNotAbandoned(n) ==
    SelectSeq(n.intentions, LAMBDA i : ~i.abandoned)

\* Nexus.availableIntentions
availableIntentions(n) ==
    SelectSeq(n.intentions,
              LAMBDA i : ~completed(n, IntentionIndex(n, i.id)) /\ ~i.abandoned)

\* ---------------------------------------------------------- startPomodoro
StartOutcome(nx, notes, err, result) ==
    [nx |-> nx, notes |-> notes, err |-> err, result |-> result]

\* sum(isinstance(each, Pomodoro) for each in self._streaks[-1])
PomodorosInLastStreak(n) ==
    Cardinality({i \in 1..Len(n.streaks[Len(n.streaks)]) :
                    n.streaks[Len(n.streaks)][i].intervalType = "Pomodoro"})

\* Mutant of startPomWithUI: indexInStreak counts every interval of the
\* streak, not only its pomodoros.
startPomCountingIntervals(ui, k, startTime, endTime) ==
    LET n == ui.nx
        newPomodoro == Pomodoro(n.intentions[k].id, Len(n.streaks[Len(n.streaks)]),
                                startTime, endTime)
        ref == PomodoroRef(Len(n.streaks), Len(n.streaks[Len(n.streaks)]) + 1) IN
    Outcome(AppendToLastStreak([n EXCEPT !.intentions[k].pomodoros = Append(@, ref)],
                               newPomodoro),
            ui.notes \o <<IntervalStart(newPomodoro)>>, NoError)

\* Mutant of startPomWithUI: the new pomodoro is not appended to its
\* intention's pomodoros.
startPomUnlisted(ui, k, startTime, endTime) ==
    LET n == ui.nx
        newPomodoro == Pomodoro(n.intentions[k].id, PomodorosInLastStreak(n),
                                startTime, endTime) IN
    Outcome(AppendToLastStreak(n, newPomodoro),
            ui.notes \o <<IntervalStart(newPomodoro)>>, NoError)

\* startPom(startTime, endTime), the closure of Nexus.startPomodoro, for the
\* intention at position k, after `ui = self.userInterface`.
startPomWithUI(ui, k, startTime, endTime) ==
    LET n == ui.nx
        newPomodoro == Pomodoro(n.intentions[k].id, PomodorosInLastStreak(n),
                                startTime, endTime)
        ref == PomodoroRef(Len(n.streaks), Len(n.streaks[Len(n.streaks)]) + 1) IN
    Outcome(AppendToLastStreak([n EXCEPT !.intentions[k].pomodoros = Append(@, ref)],
                               newPomodoro),
            ui.notes \o <<IntervalStart(newPomodoro)>>, NoError)

startPom(n, k, startTime, endTime) ==
    startPomWithUI(UserInterface(n), k, startTime, endTime)

\* `return PomStartResult.X` after the handler's work.
Returning(outcome, notes, result) ==
    StartOutcome(outcome.nx, notes \o outcome.notes, outcome.err, result)

\* handleIdleStartPom: a new run through the rule table starts at the cursor.
handleIdleStartPom(n, k) ==
    Returning(startPom([n EXCEPT !.upcomingDurations = Tail(streakIntervalDurations)], k,
                       n.lastUpdateTime,
                       n.lastUpdateTime + Head(streakIntervalDurations).seconds),
              <<>>, "Started")

\* StartPrompt.handleStartPom: the prompt is reported complete and ended,
\* then the pomodoro starts as from idle.
handlePromptStartPom(ui, k) ==
    Returning(handleIdleStartPom(ui.nx, k),
              ui.notes \o <<IntervalProgress(1, 1), IntervalEnd>>, "Started")

\* interval.handleStartPom, by interval type.
handleStartPom(interval, n, k) ==
    CASE interval.intervalType = "Pomodoro" ->
            StartOutcome(n, <<>>, NoError, "AlreadyStarted")
      [] interval.intervalType = "Break" ->
            StartOutcome(n, <<>>, NoError, "OnBreak")
      [] interval.intervalType = "GracePeriod" ->
            Returning(startPom(n, k, interval.startTime, interval.originalPomEnd),
                      <<>>, "Continued")
      [] OTHER -> handlePromptStartPom(UserInterface(n), k)

\* Mutant of startPomodoroWith: an active StartPrompt is treated as idleness.
startPomodoroPromptAsIdle(active, n, k) ==
    IF active = NoInterval \/ active.intervalType = "StartPrompt"
    THEN handleIdleStartPom(n, k)
    ELSE handleStartPom(active, n, k)

\* Nexus.startPomodoro with the interval active at the call.
startPomodoroWith(active, n, k) ==
    IF active = NoInterval
    THEN handleIdleStartPom(n, k)
    ELSE handleStartPom(active, n, k)

\* Mutant of startPomodoro: the handler is the one of the last interval of
\* the current streak, whether or not the cursor is still inside it.
startPomodoroByLastInterval(n, k) ==
    IF n.streaks[Len(n.streaks)] = <<>>
    THEN handleIdleStartPom(n, k)
    ELSE handleStartPom(n.streaks[Len(n.streaks)][Len(n.streaks[Len(n.streaks)])], n, k)

\* Mutant of startPomodoro: the listener is fetched before the handler is
\* chosen.
startPomodoroEagerUI(n, k) ==
    Returning(startPomodoroWith(ActiveInterval(n), UserInterface(n).nx, k),
              UserInterface(n).notes,
              startPomodoroWith(ActiveInterval(n), UserInterface(n).nx, k).result)

\* Mutant of startPomodoro: the handler is handleIdleStartPom whatever
\* interval is active.
startPomodoroAsIdle(n, k) == handleIdleStartPom(n, k)

\* Nexus.startPomodoro
startPomodoro(n, k) == startPomodoroWith(ActiveInterval(n), n, k)

\* ------------------------------------------------------- evaluatePomodoro
\* Mutant of evaluated: the pomodoro is cut short whatever the result is.
evaluatedCutShort(n, ref, result, nextPointLoss) ==
    IF ~(n.lastUpdateTime < PomodoroAt(n, ref).endTime) THEN Outcome(n, <<>>, NoError)
    ELSE advanceToTime([n EXCEPT !.streaks[ref.streak][ref.index].endTime = n.lastUpdateTime],
                       n.lastUpdateTime, nextPointLoss)

\* Nexus.evaluatePomodoro once the evaluation is stored (n holds it).
evaluated(n, ref, result, nextPointLoss) ==
    LET timestamp == n.lastUpdateTime
        pomodoro == PomodoroAt(n, ref)
        k == IntentionIndex(n, pomodoro.intention) IN
    IF result # "achieved" THEN Outcome(n, <<>>, NoError)
    ELSE IF ~(k # 0 /\ completed(n, k)) THEN Outcome(n, <<>>, NotCompleted)
    ELSE IF ~(timestamp < pomodoro.endTime) THEN Outcome(n, <<>>, NoError)
    ELSE IF ~(/\ ref.streak = Len(n.streaks)
              /\ ref.index = Len(n.streaks[ref.streak])
              /\ ActiveInterval(n) # NoInterval)
    THEN Outcome(n, <<>>, NotActive)
    ELSE advanceToTime([n EXCEPT !.streaks[ref.streak][ref.index].endTime = timestamp],
                       n.lastUpdateTime, nextPointLoss)

\* Nexus.evaluatePomodoro
evaluatePomodoro(n, ref, result, nextPointLoss) ==
    evaluated([n EXCEPT !.streaks[ref.streak][ref.index].evaluation =
                            Evaluation(result, n.lastUpdateTime)],
              ref, result, nextPointLoss)

\* --------------------------------- cloneWithoutUI, addIntention, addSession
\* Nexus.cloneWithoutUI: the original keeps its fields (its upcoming
\* durations are re-read into an equal iterator); the copy gets the no-op
\* listener and an empty session list.
\* Mutant of cloneWithoutUI: replace() without deepcopy().  The lists are new
\* (slices), the Intention and interval objects in them are the original's.
cloneWithoutDeepcopy(n) ==
    LET previouslyUpcoming == n.upcomingDurations
        original == [n EXCEPT !.upcomingDurations = previouslyUpcoming] IN
    [nx |-> original,
     hypothetical |-> [original EXCEPT !.userInterface = TRUE, !.sessions = <<>>],
     listener |-> "NoUserInterface",
     shared |-> {"Intention", "Interval"}]

cloneWithoutUI(n) ==
    LET previouslyUpcoming == n.upcomingDurations
        original == [n EXCEPT !.upcomingDurations = previouslyUpcoming] IN
    [nx |-> original,
     hypothetical |-> [original EXCEPT !.userInterface = TRUE, !.sessions = <<>>],
     listener |-> "NoUserInterface",
     shared |-> {}]

\* The original Nexus as it reads once its clone has become h, when the two
\* hold the same objects of the kinds in `shared`: a shared Intention or
\* interval shows the fields the clone's calls gave it.  (The clone's calls
\* only append to its own lists, so shared objects keep their positions.)
Aliased(original, h, shared) ==
    [original EXCEPT
        !.intentions = IF "Intention" \in shared
                       THEN [k \in DOMAIN original.intentions |-> h.intentions[k]]
                       ELSE @,
        !.streaks = IF "Interval" \in shared
                    THEN [st \in DOMAIN original.streaks |->
                            [i \in DOMAIN original.streaks[st] |-> h.streaks[st][i]]]
                    ELSE @]

\* Mutant of addIntention: the counter is read but not stored back.
addIntentionKeepingCounter(n, estimate) ==
    LET newID == n.lastIntentionID + 1
        newIntention == Intention(newID, n.lastUpdateTime, n.lastUpdateTime)
        withEstimate == IF estimate # NoTime
                        THEN [newIntention EXCEPT !.estimates =
                                 Append(@, Estimate(estimate, n.lastUpdateTime))]
                        ELSE newIntention IN
    Outcome([n EXCEPT !.intentions = Append(@, withEstimate)], <<>>, NoError)

\* Nexus.addIntention; estimate NoTime stands for None.
addIntention(n, estimate) ==
    LET newID == n.lastIntentionID + 1
        newIntention == Intention(newID, n.lastUpdateTime, n.lastUpdateTime)
        withEstimate == IF estimate # NoTime
                        THEN [newIntention EXCEPT !.estimates =
                                 Append(@, Estimate(estimate, n.lastUpdateTime))]
                        ELSE newIntention IN
    Outcome([n EXCEPT !.lastIntentionID = newID,
                      !.intentions = Append(@, withEstimate)],
            <<>>, NoError)

\* Session ordering: by start, then by end.
SessionBefore(a, b) == a.start < b.start \/ (a.start = b.start /\ a.end < b.end)

\* sorted(): each element is inserted after the elements not greater than it.
RECURSIVE sorted(_)
sorted(seq) ==
    IF seq = <<>> THEN <<>>
    ELSE LET rest == sorted(SubSeq(seq, 1, Len(seq) - 1))
             x == seq[Len(seq)]
             at == Cardinality({i \in 1..Len(rest) : ~SessionBefore(x, rest[i])}) IN
        SubSeq(rest, 1, at) \o <<x>> \o SubSeq(rest, at + 1, Len(rest))

\* addSession leaving the new session where append() put it.
addSessionUnsorted(n, startTime, endTime) ==
    Outcome([n EXCEPT !.sessions = Append(@, Session(startTime, endTime))],
            <<>>, NoError)

\* Mutant of addSession: the new session is acted on at once, by an advance
\* to the cursor.
addSessionPrompting(n, startTime, endTime) ==
    advanceToTime([n EXCEPT !.sessions = sorted(Append(@, Session(startTime, endTime)))],
                  n.lastUpdateTime, endTime)

\* Nexus.addSession
addSession(n, startTime, endTime) ==
    Outcome([n EXCEPT !.sessions = sorted(Append(@, Session(startTime, endTime)))],
            <<>>, NoError)

\* ------------------------------------------------------------ scoreEvents
\* Points are counted in hundredths of a point.
PointScale == 100

\* EvaluationResult.points
EvaluationPoints(result) ==
    CASE result = "distracted" -> 10
      [] result = "interrupted" -> 20
      [] result = "focused" -> 100
      [] result = "achieved" -> 125

\* The points of the other events, as the story test counts them: 3 for an
\* intention, 1 for an estimate, 1 for a break, and 1, 2, ... for the first,
\* second, ... pomodoro of a streak.
IntentionPoints == 3
EstimationPoints == 1
BreakPoints == 1

ScoreEvent(kind, points, time) == [kind |-> kind, points |-> points, time |-> time]

\* intention.intentionScoreEvents(intentionIndex): the creation, then the
\* estimates.
intentionScoreEvents(intention) ==
    <<ScoreEvent("IntentionCreated", IntentionPoints * PointScale, intention.created)>>
    \o [j \in 1..Len(intention.estimates) |->
            ScoreEvent("Estimation", EstimationPoints * PointScale,
                       intention.estimates[j].madeAt)]

\* interval.scoreEvents(): a Pomodoro scores its intention when it starts and
\* its evaluation when it is evaluated, a Break scores when it is over.
intervalScoreEvents(interval) ==
    CASE interval.intervalType = "Pomodoro" ->
            <<ScoreEvent("IntentionSet", (interval.indexInStreak + 1) * PointScale,
                         interval.startTime)>>
            \o (IF interval.evaluation # NoEvaluation
                THEN <<ScoreEvent("Evaluation", EvaluationPoints(interval.evaluation.result),
                                  interval.evaluation.timestamp)>>
                ELSE <<>>)
      [] interval.intervalType = "Break" ->
            <<ScoreEvent("BreakCompleted", BreakPoints * PointScale, interval.endTime)>>
      [] OTHER -> <<>>

RECURSIVE Flatten(_)
Flatten(seqs) == IF seqs = <<>> THEN <<>> ELSE Head(seqs) \o Flatten(Tail(seqs))

InRange(events, startTime, endTime) ==
    SelectSeq(events, LAMBDA event : startTime <= event.time /\ event.time <= endTime)

\* Mutant of scoreEventsBetween: the events of intervals are not held
\* against endTime.
scoreEventsOpenEnded(n, startTime, endTime) ==
    InRange(Flatten([k \in 1..Len(n.intentions) |-> intentionScoreEvents(n.intentions[k])]),
            startTime, endTime)
    \o Flatten([st \in 1..Len(n.streaks) |->
            Flatten([i \in 1..Len(n.streaks[st]) |->
                IF n.streaks[st][i].startTime > startTime
                THEN SelectSeq(intervalScoreEvents(n.streaks[st][i]),
                               LAMBDA event : startTime <= event.time)
                ELSE <<>>])])

\* The two loops of Nexus.scoreEvents, the range being given.
scoreEventsBetween(n, startTime, endTime) ==
    InRange(Flatten([k \in 1..Len(n.intentions) |-> intentionScoreEvents(n.intentions[k])]),
            startTime, endTime)
    \o Flatten([st \in 1..Len(n.streaks) |->
            Flatten([i \in 1..Len(n.streaks[st]) |->
                IF n.streaks[st][i].startTime > startTime
                THEN InRange(intervalScoreEvents(n.streaks[st][i]), startTime, endTime)
                ELSE <<>>])])

\* Nexus.scoreEvents; NoTime stands for None.
scoreEvents(n, startTime, endTime) ==
    scoreEventsBetween(n,
                       IF startTime = NoTime THEN n.initialTime ELSE startTime,
                       IF endTime = NoTime THEN n.lastUpdateTime ELSE endTime)

\* The work sessions the model's user adds.
SessionWindows == {<<horizon - 3 * Tick, horizon - Tick>>}

\* ------------------------------------------------------------ construction
\* The dataclass fields with their defaults: one empty streak, no session,
\* no intention, no upcoming duration, cursor 0.0, listener not yet built.
Fields(initialTime, lastIntentionID) ==
    [initialTime |-> initialTime, lastIntentionID |-> lastIntentionID,
     intentions |-> <<>>, userInterface |-> FALSE, upcomingDurations |-> <<>>,
     streaks |-> << <<>> >>, sessions |-> <<>>, lastUpdateTime |-> 0]

\* Nexus.__post_init__: a Nexus built with a later initial time advances to it.
PostInit(n) ==
    IF n.initialTime > n.lastUpdateTime
    THEN advanceToTime(n, n.initialTime, NoTime).nx
    ELSE n

\* Nexus(initialTime, factory, 0)
NewNexus(initialTime) == PostInit(Fields(initialTime, 0))

\* A Nexus built from saved fields (_intentions, _streaks, _upcomingDurations,
\* _lastUpdateTime given to the constructor): a first streak saved `elapsed`
\* seconds after its start at 0, holding its first `count` intervals of
\* Pomodoro, Break, GracePeriod, all started with intention 1.
SavedStreak(count) ==
    LET pom == Pomodoro(1, 0, 0, streakIntervalDurations[1].seconds)
        brk == Break(pom.endTime, pom.endTime + streakIntervalDurations[2].seconds)
        grace == GracePeriod(brk.endTime, brk.endTime + streakIntervalDurations[3].seconds) IN
    SubSeq(<<pom, brk, grace>>, 1, count)

SavedNexus(count, elapsed) ==
    PostInit([Fields(0, 1) EXCEPT
        !.intentions = <<[Intention(1, 0, 0) EXCEPT !.pomodoros = <<PomodoroRef(1, 1)>>]>>,
        !.streaks = <<SavedStreak(count)>>,
        !.upcomingDurations = SubSeq(streakIntervalDurations, count + 1,
                                     Len(streakIntervalDurations)),
        !.lastUpdateTime = elapsed])

RECURSIVE SumLen(_, _)
SumLen(streaks, k) == IF k = 0 THEN 0 ELSE Len(streaks[k]) + SumLen(streaks, k - 1)

TotalIntervals(n) == SumLen(n.streaks, Len(n.streaks))

\* What the last call was and how it ended.
Call(op, newTime, intention, pomodoro, evaluation, nextPointLoss, result, err, notes) ==
    [op |-> op, newTime |-> newTime, intention |-> intention, pomodoro |-> pomodoro,
     evaluation |-> evaluation, nextPointLoss |-> nextPointLoss, result |-> result,
     err |-> err, notes |-> notes]

NoRef == PomodoroRef(0, 0)

Init ==
    /\ nexus \in {NewNexus(0), NewNexus(Tick),
                  SavedNexus(2, 4 * Tick), SavedNexus(3, 7 * Tick)}
    /\ last = Call("init", NoTime, 0, NoRef, "None", NoTime, "None", NoError, <<>>)
    /\ horizon = nexus.lastUpdateTime + MaxTicks * Tick
    /\ capacity = TotalIntervals(nexus) + MaxIntervals

\* The answers the ideal-score calculator may give when asked at `timestamp`:
\* None, or a time up to the end of the session it is asked about (the time
\* `timestamp` itself stands for every answer that is not in the future).  It
\* is asked only when no duration is upcoming and a session covers timestamp.
NextPointLosses(n, timestamp) ==
    LET covering == {k \in 1..Len(n.sessions) :
                        n.sessions[k].start <= timestamp /\ timestamp < n.sessions[k].end} IN
    IF n.upcomingDurations # <<>> \/ covering = {} THEN {NoTime}
    ELSE {NoTime} \cup {t \in Times : timestamp <= t /\ t <= n.sessions[Min(covering)].end}

\* An uncaught exception ends the run: the caller makes no further call.
Running == last.err = NoError

AdvanceToTime ==
    /\ Running
    /\ \E newTime \in Times : \E nextPointLoss \in NextPointLosses(nexus, newTime) :
        LET r == advanceToTime(nexus, newTime, nextPointLoss) IN
        /\ TotalIntervals(r.nx) <= capacity
        /\ nexus' = r.nx
        /\ UNCHANGED <<horizon, capacity>>
        /\ last' = Call("advanceToTime", newTime, 0, NoRef, "None", nextPointLoss,
                        "None", r.err, r.notes)

StartPomodoro ==
    /\ Running
    /\ \E k \in 1..Len(nexus.intentions) :
        LET r == startPomodoro(nexus, k) IN
        /\ TotalIntervals(r.nx) <= capacity
        /\ nexus' = r.nx
        /\ UNCHANGED <<horizon, capacity>>
        /\ last' = Call("startPomodoro", NoTime, k, NoRef, "None", NoTime,
                        r.result, r.err, r.notes)

EvaluatePomodoro ==
    /\ Running
    /\ \E ref \in PomodoroRefs(nexus), result \in EvaluatedAs,
       nextPointLoss \in NextPointLosses(nexus, nexus.lastUpdateTime) :
        LET r == evaluatePomodoro(nexus, ref, result, nextPointLoss) IN
        /\ TotalIntervals(r.nx) <= capacity
        /\ nexus' = r.nx
        /\ UNCHANGED <<horizon, capacity>>
        /\ last' = Call("evaluatePomodoro", NoTime, 0, ref, result, nextPointLoss,
                        "None", r.err, r.notes)

AddIntention ==
    /\ Running
    /\ Len(nexus.intentions) < MaxIntentions
    /\ \E estimate \in {NoTime, Tick} :
        LET r == addIntention(nexus, estimate) IN
        /\ nexus' = r.nx
        /\ UNCHANGED <<horizon, capacity>>
        /\ last' = Call("addIntention", NoTime, Len(r.nx.intentions), NoRef, "None",
                        NoTime, "None", r.err, r.notes)

AddSession ==
    /\ Running
    /\ Len(nexus.sessions) < MaxSessions
    /\ \E window \in SessionWindows :
        LET startTime == window[1]
            endTime == window[2]
            r == addSession(nexus, startTime, endTime) IN
        /\ nexus' = r.nx
        /\ UNCHANGED <<horizon, capacity>>
        /\ last' = Call("addSession", NoTime, 0, NoRef, "None", NoTime, "None",
                        r.err, r.notes)

Next ==
    \/ AdvanceToTime
    \/ StartPomodoro
    \/ EvaluatePomodoro
    \/ AddIntention
    \/ AddSession

Spec == Init /\ [][Next]_vars

\* ----------------------------------------------------- no session planned
\* A user who never plans a work session: no StartPrompt is ever offered.
UnplannedNext ==
    \/ AdvanceToTime
    \/ StartPomodoro
    \/ EvaluatePomodoro
    \/ AddIntention

UnplannedSpec == Init /\ [][UnplannedNext]_vars

\* ------------------------------------------------------- the loop, stepwise
\* advanceToTime run one loop iteration per step.  While a call has not
\* returned, `last` is its frame: how it ended is still pending, and it holds
\* the loop's previousInterval and the number of iterations made.
Pending == "pending"

Frame(op, newTime, pomodoro, evaluation, nextPointLoss, notes) ==
    [op |-> op, newTime |-> newTime, intention |-> 0, pomodoro |-> pomodoro,
     evaluation |-> evaluation, nextPointLoss |-> nextPointLoss, result |-> "None",
     err |-> Pending, notes |-> notes, previousInterval |-> NoInterval, iterations |-> 0]

\* `return` or an uncaught exception: the frame becomes the finished call.
Returned(frame, outcome) ==
    Call(frame.op, frame.newTime, 0, frame.pomodoro, frame.evaluation,
         frame.nextPointLoss, "None", outcome.err, outcome.notes)

\* Nexus.advanceToTime up to the while loop: the cursor moves, and with no
\* interval active before, the next one is bootstrapped.
enterAdvance(n, previouslyActiveInterval, newTime, nextPointLoss) ==
    IF previouslyActiveInterval = NoInterval
    THEN makeNextInterval([n EXCEPT !.lastUpdateTime = newTime], newTime,
                          previouslyActiveInterval, nextPointLoss)
    ELSE Outcome([n EXCEPT !.lastUpdateTime = newTime], <<>>, NoError)

\* Mutant of loopExits: the loop only stops when no interval is active.
loopExitsWhenIdle(interval, previousInterval) == interval = NoInterval

\* The negated condition of the while loop.
loopExits(interval, previousInterval) ==
    interval = NoInterval \/ interval = previousInterval

\* One run of the loop body for `interval`, the listener being at hand.
bodyWithUI(ui, notes, newTime, interval, nextPointLoss, next) ==
    IF newTime >= interval.endTime
    THEN Outcome(next.nx,
                 notes \o ui.notes
                       \o <<IntervalProgress(newTime - interval.startTime,
                                             interval.endTime - interval.startTime),
                            IntervalEnd>>
                       \o next.notes,
                 next.err)
    ELSE Outcome(ui.nx,
                 notes \o ui.notes
                       \o <<IntervalProgress(newTime - interval.startTime,
                                             interval.endTime - interval.startTime)>>,
                 NoError)

bodyOnce(n, notes, newTime, interval, nextPointLoss) ==
    IF interval.endTime - interval.startTime = 0
    THEN Outcome(n, notes, ZeroDivision)
    ELSE bodyWithUI(UserInterface(n), notes, newTime, interval, nextPointLoss,
                    makeNextInterval(expire(UserInterface(n).nx, interval), newTime,
                                     interval, nextPointLoss))

\* evaluatePomodoro reaches its call of advanceToTime: the result is achieved,
\* the cursor is before the pomodoro's end and both assertions pass.
reenters(n, ref, result) ==
    /\ result = "achieved"
    /\ IntentionIndex(n, PomodoroAt(n, ref).intention) # 0
    /\ completed(n, IntentionIndex(n, PomodoroAt(n, ref).intention))
    /\ n.lastUpdateTime < PomodoroAt(n, ref).endTime
    /\ ref.streak = Len(n.streaks)
    /\ ref.index = Len(n.streaks[ref.streak])
    /\ ActiveInterval(n) # NoInterval

\* The call is entered; it has returned already when entering raised.
Entered(frame, boot) ==
    /\ TotalIntervals(boot.nx) <= capacity
    /\ nexus' = boot.nx
    /\ last' = IF boot.err # NoError
               THEN Returned(frame, boot)
               ELSE [frame EXCEPT !.notes = boot.notes]

BeginAdvance ==
    /\ Running
    /\ UNCHANGED <<horizon, capacity>>
    /\ \E newTime \in Times : \E nextPointLoss \in NextPointLosses(nexus, newTime) :
        IF ~(newTime >= nexus.lastUpdateTime)
        THEN /\ nexus' = nexus
             /\ last' = Call("advanceToTime", newTime, 0, NoRef, "None", nextPointLoss,
                             "None", TimeBackwards, <<>>)
        ELSE Entered(Frame("advanceToTime", newTime, NoRef, "None", nextPointLoss, <<>>),
                     enterAdvance(nexus, ActiveInterval(nexus), newTime, nextPointLoss))

BeginEvaluate ==
    /\ Running
    /\ UNCHANGED <<horizon, capacity>>
    /\ \E ref \in PomodoroRefs(nexus), result \in EvaluatedAs,
          nextPointLoss \in NextPointLosses(nexus, nexus.lastUpdateTime) :
        LET stored == [nexus EXCEPT !.streaks[ref.streak][ref.index].evaluation =
                                        Evaluation(result, nexus.lastUpdateTime)]
            cut == [stored EXCEPT !.streaks[ref.streak][ref.index].endTime =
                                        nexus.lastUpdateTime] IN
        IF reenters(stored, ref, result)
        THEN Entered(Frame("evaluatePomodoro", NoTime, ref, result, nextPointLoss, <<>>),
                     enterAdvance(cut, ActiveInterval(cut), cut.lastUpdateTime,
                                  nextPointLoss))
        ELSE /\ nexus' = evaluated(stored, ref, result, nextPointLoss).nx
             /\ last' = Call("evaluatePomodoro", NoTime, 0, ref, result, nextPointLoss,
                             "None", evaluated(stored, ref, result, nextPointLoss).err,
                             evaluated(stored, ref, result, nextPointLoss).notes)

\* The loop condition is tested: the loop is left for the closing assertion,
\* or its body runs once.
Iterate ==
    /\ last.err = Pending
    /\ UNCHANGED <<horizon, capacity>>
    /\ IF loopExits(ActiveInterval(nexus), last.previousInterval)
       THEN /\ nexus' = nexus
            /\ last' = Returned(last, closingAssertion(Outcome(nexus, last.notes, NoError)))
       ELSE LET r == bodyOnce(nexus, last.notes, nexus.lastUpdateTime,
                              ActiveInterval(nexus), last.nextPointLoss) IN
            /\ nexus' = r.nx
            /\ last' = IF r.err # NoError
                       THEN Returned(last, r)
                       ELSE [last EXCEPT !.notes = r.notes,
                                         !.previousInterval = ActiveInterval(nexus),
                                         !.iterations = @ + 1]

LoopNext ==
    \/ BeginAdvance
    \/ Iterate
    \/ BeginEvaluate
    \/ StartPomodoro
    \/ AddIntention
    \/ AddSession

LoopSpec == Init /\ [][LoopNext]_vars

\* ------------------------------------------------------ a finished streak
\* A Nexus built from saved fields after its first streak ended: the grace
\* period ran out, no duration is upcoming and an empty streak is current.
SavedHistory(elapsed) ==
    PostInit([Fields(0, 1) EXCEPT
        !.intentions = <<[Intention(1, 0, 0) EXCEPT !.pomodoros = <<PomodoroRef(1, 1)>>]>>,
        !.streaks = <<SavedStreak(3), <<>> >>,
        !.lastUpdateTime = elapsed])

HistoryInit ==
    /\ nexus \in {SavedHistory(SavedStreak(3)[3].endTime),
                  SavedHistory(SavedStreak(3)[3].endTime + Tick)}
    /\ last = Call("init", NoTime, 0, NoRef, "None", NoTime, "None", NoError, <<>>)
    /\ horizon = nexus.lastUpdateTime + MaxTicks * Tick
    /\ capacity = TotalIntervals(nexus) + MaxIntervals

HistoryNext ==
    \/ AdvanceToTime
    \/ StartPomodoro
    \/ EvaluatePomodoro
    \/ AddSession

HistorySpec == HistoryInit /\ [][HistoryNext]_vars

\* ------------------------------------------------------ planning sessions
\* A user who only plans work sessions: windows that overlap, nest, share a
\* start or are equal, added in any order.
SessionPlans ==
    {window \in {<<a * Tick, b * Tick>> : a \in 0..2, b \in 1..3} : window[1] < window[2]}

PlanSession ==
    /\ Len(nexus.sessions) < MaxPlanned
    /\ \E window \in SessionPlans :
        LET r == addSession(nexus, window[1], window[2]) IN
        /\ nexus' = r.nx
        /\ UNCHANGED <<horizon, capacity>>
        /\ last' = Call("addSession", NoTime, 0, NoRef, "None", NoTime, "None",
                        r.err, r.notes)

SessionNext == PlanSession

SessionSpec == Init /\ [][SessionNext]_vars

\* ------------------------------------------------------------- properties
Notified(notes, kind) == \E i \in 1..Len(notes) : notes[i].kind = kind

LastStreak(n) == n.streaks[Len(n.streaks)]

\* The fields a caller can observe, the listener flag aside.
SameModel(a, b) ==
    /\ a.streaks = b.streaks
    /\ a.intentions = b.intentions
    /\ a.sessions = b.sessions
    /\ a.upcomingDurations = b.upcomingDurations
    /\ a.lastUpdateTime = b.lastUpdateTime
    /\ a.lastIntentionID = b.lastIntentionID

Covered(n, t) ==
    \E k \in 1..Len(n.sessions) : n.sessions[k].start <= t /\ t < n.sessions[k].end

PomodoroCount(n) == Cardinality(PomodoroRefs(n))

Rejections == {"OnBreak", "AlreadyStarted"}

\* C1: advanceToTime(newTime) with newTime before the cursor fails with the
\* "Time cannot move backwards" assertion, leaves every field of the Nexus as
\* it was and calls no listener method; a call that was made with an earlier
\* time is never one that went through.
AdvanceBackwardsFails ==
    /\ Running =>
        \A newTime \in Times : \A nextPointLoss \in NextPointLosses(nexus, newTime) :
            newTime < nexus.lastUpdateTime =>
                /\ advanceToTime(nexus, newTime, nextPointLoss).err = TimeBackwards
                /\ advanceToTime(nexus, newTime, nextPointLoss).nx = nexus
                /\ advanceToTime(nexus, newTime, nextPointLoss).notes = <<>>
    /\ (last.op = "advanceToTime" /\ last.newTime < nexus.lastUpdateTime) =>
        (last.err = TimeBackwards /\ last.notes = <<>>)

\* A call with an earlier time has just failed.
AdvanceBackwardsWitness ==
    /\ last.op = "advanceToTime"
    /\ last.newTime < nexus.lastUpdateTime
    /\ last.err = TimeBackwards

\* C2: lastUpdateTime never decreases from one state to the next, whichever
\* operation is called, and cloneWithoutUI leaves the original's cursor alone.
CursorNeverDecreases ==
    /\ [][nexus'.lastUpdateTime >= nexus.lastUpdateTime]_vars
    /\ [](cloneWithoutUI(nexus).nx.lastUpdateTime >= nexus.lastUpdateTime)

\* The cursor was advanced all the way to the horizon.
CursorAdvancedWitness ==
    /\ last.op = "advanceToTime"
    /\ last.err = NoError
    /\ nexus.lastUpdateTime = horizon
    /\ nexus.lastUpdateTime > nexus.initialTime

\* C3: the closing assertion of advanceToTime never fails: in every state the
\* active interval is None or the cursor is not past its end.
ClosingAssertionHolds ==
    /\ last.err # ActiveInPast
    /\ \/ ActiveInterval(nexus) = NoInterval
       \/ nexus.lastUpdateTime <= ActiveInterval(nexus).endTime

\* advanceToTime returned with an interval still active.
ClosingAssertionWitness ==
    /\ last.op = "advanceToTime"
    /\ last.err = NoError
    /\ ActiveInterval(nexus) # NoInterval
    /\ nexus.lastUpdateTime > ActiveInterval(nexus).startTime

\* C4: advanceToTime(t) called a second time with the same t succeeds, leaves
\* streaks, sessions, intentions, upcoming durations and cursor as the first
\* call left them, and notifies no intervalStart or intervalEnd.
AdvanceIdempotent ==
    Running =>
        \A t \in Times : \A nextPointLoss \in NextPointLosses(nexus, t) :
            (t >= nexus.lastUpdateTime /\ advanceToTime(nexus, t, nextPointLoss).err = NoError) =>
                LET first == advanceToTime(nexus, t, nextPointLoss).nx
                    second == advanceToTime(first, t, nextPointLoss) IN
                /\ second.err = NoError
                /\ SameModel(second.nx, first)
                /\ ~Notified(second.notes, "intervalStart")
                /\ ~Notified(second.notes, "intervalEnd")

\* C5: advanceToTime(t) with an active Pomodoro P and t >= P.endTime notifies
\* intervalEnd and appends Break(P.endTime, P.endTime + the break length that
\* follows P), which is active when t is before its end.
PomodoroExpiresIntoBreak ==
    (Running /\ ActiveInterval(nexus).intervalType = "Pomodoro") =>
        \A t \in Times : t >= ActiveInterval(nexus).endTime =>
            LET P == ActiveInterval(nexus)
                r == advanceToTime(nexus, t, NoTime)
                brk == Break(P.endTime, P.endTime + Head(nexus.upcomingDurations).seconds) IN
            /\ r.err = NoError
            /\ Notified(r.notes, "intervalEnd")
            /\ LastStreak(r.nx) = Append(LastStreak(nexus), brk)
            /\ t < brk.endTime => ActiveInterval(r.nx) = brk

\* C6: the result of startPomodoro follows the interval active at the call
\* (none or StartPrompt: Started; GracePeriod: Continued; Break: OnBreak;
\* Pomodoro: AlreadyStarted), and one more Pomodoro is held exactly when the
\* result is Started or Continued.
StartResultFollowsActiveInterval ==
    Running =>
        \A k \in 1..Len(nexus.intentions) :
            LET active == ActiveInterval(nexus).intervalType
                r == startPomodoro(nexus, k) IN
            /\ r.err = NoError
            /\ active \in {"None", "StartPrompt"} => r.result = "Started"
            /\ active = "GracePeriod" => r.result = "Continued"
            /\ active = "Break" => r.result = "OnBreak"
            /\ active = "Pomodoro" => r.result = "AlreadyStarted"
            /\ r.result \in {"Started", "Continued"} =>
                    PomodoroCount(r.nx) = PomodoroCount(nexus) + 1
            /\ r.result \notin {"Started", "Continued"} =>
                    PomodoroCount(r.nx) = PomodoroCount(nexus)

\* A pomodoro was started out of a StartPrompt that was still running.
StartedFromPromptWitness ==
    /\ last.op = "startPomodoro"
    /\ last.result = "Started"
    /\ Len(LastStreak(nexus)) >= 2
    /\ LastStreak(nexus)[Len(LastStreak(nexus)) - 1].intervalType = "StartPrompt"
    /\ LastStreak(nexus)[Len(LastStreak(nexus)) - 1].endTime > nexus.lastUpdateTime
    /\ ActiveInterval(nexus).intervalType = "Pomodoro"

\* C7: a startPomodoro that returns OnBreak or AlreadyStarted changes no
\* field of the Nexus (streaks, the intention's pomodoros, upcoming
\* durations, cursor, active interval) and calls no listener method.
RejectedStartHasNoEffect ==
    /\ Running =>
        \A k \in 1..Len(nexus.intentions) :
            startPomodoro(nexus, k).result \in Rejections =>
                /\ startPomodoro(nexus, k).nx = nexus
                /\ startPomodoro(nexus, k).notes = <<>>
                /\ startPomodoro(nexus, k).err = NoError
    /\ (last.op = "startPomodoro" /\ last.result \in Rejections) => last.notes = <<>>

\* A start was rejected during a break, before the listener was ever built.
RejectedOnBreakWitness ==
    /\ last.op = "startPomodoro"
    /\ last.result = "OnBreak"
    /\ ActiveInterval(nexus).intervalType = "Break"
    /\ ~nexus.userInterface

\* C8: startPomodoro during a GracePeriod G returns Continued and appends to
\* the current streak a Pomodoro from G.startTime to G.originalPomEnd whose
\* indexInStreak is one more than that of the streak's previous Pomodoro.
GraceContinuation ==
    (Running /\ ActiveInterval(nexus).intervalType = "GracePeriod") =>
        \A k \in 1..Len(nexus.intentions) :
            LET G == ActiveInterval(nexus)
                r == startPomodoro(nexus, k)
                before == LastStreak(nexus)
                poms == {i \in 1..Len(before) : before[i].intervalType = "Pomodoro"}
                new == LastStreak(r.nx)[Len(LastStreak(r.nx))] IN
            /\ r.result = "Continued"
            /\ Len(r.nx.streaks) = Len(nexus.streaks)
            /\ LastStreak(r.nx) = Append(before, new)
            /\ new.intervalType = "Pomodoro"
            /\ new.startTime = G.startTime
            /\ new.endTime = G.originalPomEnd
            /\ poms # {}
            /\ new.indexInStreak = before[Max(poms)].indexInStreak + 1

\* A streak was continued from its grace period, after the grace period had
\* begun: the new pomodoro is backdated.
ContinuedWitness ==
    /\ last.op = "startPomodoro"
    /\ last.result = "Continued"
    /\ ActiveInterval(nexus).intervalType = "Pomodoro"
    /\ ActiveInterval(nexus).indexInStreak = 1
    /\ ActiveInterval(nexus).startTime < nexus.lastUpdateTime

\* C9: advanceToTime to or past the end of an active GracePeriod notifies
\* intervalEnd and appends a new empty streak, and further advanceToTime
\* calls create no interval while no session covers the cursor.
GraceExpiryBreaksStreak ==
    (Running /\ ActiveInterval(nexus).intervalType = "GracePeriod") =>
        \A t \in Times : t >= ActiveInterval(nexus).endTime =>
            LET r == advanceToTime(nexus, t, NoTime) IN
            /\ r.err = NoError
            /\ Notified(r.notes, "intervalEnd")
            /\ r.nx.streaks = Append(nexus.streaks, <<>>)
            /\ \A t2 \in Times : (t2 >= t /\ ~Covered(r.nx, t2)) =>
                    /\ advanceToTime(r.nx, t2, NoTime).err = NoError
                    /\ TotalIntervals(advanceToTime(r.nx, t2, NoTime).nx) = TotalIntervals(r.nx)

\* C10: evaluatePomodoro(P, achieved) at cursor t, with P active and
\* t < P.endTime, completes without error, sets P.endTime to t, notifies
\* intervalEnd and leaves a Break starting at t as the active interval.
EarlyAchievementStartsBreak ==
    Running =>
        \A ref \in PomodoroRefs(nexus) :
            (/\ PomodoroAt(nexus, ref) = ActiveInterval(nexus)
             /\ nexus.lastUpdateTime < PomodoroAt(nexus, ref).endTime) =>
                LET r == evaluatePomodoro(nexus, ref, "achieved", NoTime) IN
                /\ r.err = NoError
                /\ PomodoroAt(r.nx, ref).endTime = nexus.lastUpdateTime
                /\ Notified(r.notes, "intervalEnd")
                /\ ActiveInterval(r.nx).intervalType = "Break"
                /\ ActiveInterval(r.nx).startTime = nexus.lastUpdateTime

\* C11: evaluatePomodoro with a result other than achieved stores
\* Evaluation(result, lastUpdateTime) on the pomodoro and changes nothing
\* else, notifies nothing, and an active pomodoro stays the active interval at
\* every later time before its end.
OtherEvaluationKeepsTiming ==
    Running =>
        \A ref \in PomodoroRefs(nexus) : \A result \in EvaluationResults \ {"achieved"} :
            LET r == evaluatePomodoro(nexus, ref, result, NoTime)
                kept == [PomodoroAt(nexus, ref) EXCEPT
                            !.evaluation = Evaluation(result, nexus.lastUpdateTime)] IN
            /\ r.err = NoError
            /\ r.notes = <<>>
            /\ r.nx = [nexus EXCEPT !.streaks[ref.streak][ref.index] = kept]
            /\ PomodoroAt(nexus, ref) = ActiveInterval(nexus) =>
                \A t \in Times : (nexus.lastUpdateTime <= t /\ t < kept.endTime) =>
                    ActiveInterval(advanceToTime(r.nx, t, NoTime).nx) = kept

\* The running pomodoro was evaluated focused part of the way through.
EvaluatedFocusedWitness ==
    /\ last.op = "evaluatePomodoro"
    /\ last.evaluation = "focused"
    /\ last.err = NoError
    /\ ActiveInterval(nexus).intervalType = "Pomodoro"
    /\ ActiveInterval(nexus).evaluation = Evaluation("focused", nexus.lastUpdateTime)
    /\ ActiveInterval(nexus).startTime < nexus.lastUpdateTime

\* The (pomodoro, break) minutes for streak index i, the last pair standing
\* in for every index past the table.
RulePair(i) == RuleMinutes[Min({i + 1, Len(RuleMinutes)})]

\* C12: the Pomodoro at streak index i lasts the pomodoro minutes of the i-th
\* pair of the rule table (the last pair from index 4 on), and when it
\* expires the Break of that pair's break minutes follows it.
StreakDurationTable ==
    Running =>
        \A ref \in PomodoroRefs(nexus) :
            LET P == PomodoroAt(nexus, ref)
                pair == RulePair(P.indexInStreak) IN
            /\ P.endTime - P.startTime = pair[1] * SecondsPerMinute
            /\ P = ActiveInterval(nexus) =>
                \A t \in Times : t >= P.endTime =>
                    LET after == LastStreak(advanceToTime(nexus, t, NoTime).nx) IN
                    after[Len(after)] = Break(P.endTime, P.endTime + pair[2] * SecondsPerMinute)

\* C13: an accepted startPomodoro gives the new Pomodoro the number of
\* Pomodoros already in the current streak as indexInStreak, and that is 0
\* when the result is Started.
StartIndexCountsPomodoros ==
    Running =>
        \A k \in 1..Len(nexus.intentions) :
            LET r == startPomodoro(nexus, k)
                new == LastStreak(r.nx)[Len(LastStreak(r.nx))] IN
            r.result \in {"Started", "Continued"} =>
                /\ new.intervalType = "Pomodoro"
                /\ new.indexInStreak = PomodorosInLastStreak(nexus)
                /\ r.result = "Started" => new.indexInStreak = 0

\* C14: advanceToTime to or past the end of the active Break B, with a
\* pomodoro duration d upcoming, appends GracePeriod(B.endTime) with
\* originalPomEnd = B.endTime + d.
BreakExpiresIntoGrace ==
    (/\ Running
     /\ ActiveInterval(nexus).intervalType = "Break"
     /\ nexus.upcomingDurations # <<>>
     /\ Head(nexus.upcomingDurations).intervalType = "Pomodoro") =>
        \A t \in Times : t >= ActiveInterval(nexus).endTime =>
            LET B == ActiveInterval(nexus)
                r == advanceToTime(nexus, t, NoTime) IN
            /\ r.err = NoError
            /\ LastStreak(r.nx) =
                    Append(LastStreak(nexus),
                           GracePeriod(B.endTime,
                                       B.endTime + Head(nexus.upcomingDurations).seconds))

\* C15: advanceToTime(t) with no interval active and no duration upcoming
\* creates StartPrompt(t, nextPointLoss) and notifies its intervalStart
\* exactly when a session covers t and the calculator's nextPointLoss is
\* later than t; otherwise no interval is created, and with no session
\* covering t nothing is notified.
IdleBecomesStartPrompt ==
    (Running /\ ActiveInterval(nexus) = NoInterval /\ nexus.upcomingDurations = <<>>) =>
        \A t \in Times : \A nextPointLoss \in NextPointLosses(nexus, t) :
            t >= nexus.lastUpdateTime =>
                LET r == advanceToTime(nexus, t, nextPointLoss)
                    prompt == StartPrompt(t, nextPointLoss) IN
                /\ r.err = NoError
                /\ Len(r.nx.streaks) = Len(nexus.streaks)
                /\ IF Covered(nexus, t) /\ nextPointLoss # NoTime /\ nextPointLoss > t
                   THEN /\ LastStreak(r.nx) = Append(LastStreak(nexus), prompt)
                        /\ \E i \in 1..Len(r.notes) : r.notes[i] = IntervalStart(prompt)
                        /\ ActiveInterval(r.nx) = prompt
                   ELSE /\ r.nx.streaks = nexus.streaks
                        /\ ~Notified(r.notes, "intervalStart")
                /\ ~Covered(nexus, t) => r.notes = <<>>

\* A StartPrompt was created by the call that moved the cursor into a session.
PromptCreatedWitness ==
    /\ last.op = "advanceToTime"
    /\ last.err = NoError
    /\ ActiveInterval(nexus) = StartPrompt(last.newTime, last.nextPointLoss)
    /\ Covered(nexus, last.newTime)
    /\ last.notes # <<>>
    /\ last.notes[1] = IntervalStart(ActiveInterval(nexus))

\* C16: startPomodoro during an active StartPrompt notifies progress 1.0 and
\* intervalEnd for the prompt, returns Started, and appends a Pomodoro from
\* the cursor to the cursor plus the first pomodoro duration with
\* indexInStreak 0, which is then the active interval.
StartDuringPrompt ==
    (Running /\ ActiveInterval(nexus).intervalType = "StartPrompt") =>
        \A k \in 1..Len(nexus.intentions) :
            LET r == startPomodoro(nexus, k)
                new == Pomodoro(nexus.intentions[k].id, 0, nexus.lastUpdateTime,
                                nexus.lastUpdateTime + streakIntervalDurations[1].seconds) IN
            /\ r.err = NoError
            /\ r.result = "Started"
            /\ r.notes = <<IntervalProgress(1, 1), IntervalEnd, IntervalStart(new)>>
            /\ LastStreak(r.nx) = Append(LastStreak(nexus), new)
            /\ ActiveInterval(r.nx) = new

\* A pomodoro was started while a prompt was showing: the call ended the
\* prompt before it started the pomodoro.
PromptStoppedWitness ==
    /\ last.op = "startPomodoro"
    /\ last.result = "Started"
    /\ Len(last.notes) = 3
    /\ last.notes[1] = IntervalProgress(1, 1)
    /\ last.notes[2] = IntervalEnd
    /\ last.notes[3] = IntervalStart(ActiveInterval(nexus))
    /\ ActiveInterval(nexus).startTime = nexus.lastUpdateTime

\* C17: advanceToTime(t) to or past the end of the active StartPrompt, with
\* a session covering t and a later deadline, notifies progress 1.0 and
\* intervalEnd for the old prompt and appends and starts StartPrompt(t,
\* deadline).
StartPromptRenewed ==
    (Running /\ ActiveInterval(nexus).intervalType = "StartPrompt") =>
        \A t \in Times : \A nextPointLoss \in NextPointLosses(nexus, t) :
            (/\ t >= ActiveInterval(nexus).endTime
             /\ Covered(nexus, t)
             /\ nextPointLoss # NoTime
             /\ nextPointLoss > t) =>
                LET r == advanceToTime(nexus, t, nextPointLoss)
                    prompt == StartPrompt(t, nextPointLoss) IN
                /\ r.err = NoError
                /\ \E i \in 1..Len(r.notes) : r.notes[i] = IntervalProgress(1, 1)
                /\ Notified(r.notes, "intervalEnd")
                /\ \E i \in 1..Len(r.notes) : r.notes[i] = IntervalStart(prompt)
                /\ LastStreak(r.nx) = Append(LastStreak(nexus), prompt)

\* The last interval of the current streak is a GracePeriod the cursor has
\* outrun, or the current streak is the empty one opened after a streak that
\* ended with a GracePeriod.
GraceExpired(n) ==
    /\ ActiveInterval(n) = NoInterval
    /\ \/ /\ LastStreak(n) # <<>>
          /\ LastStreak(n)[Len(LastStreak(n))].intervalType = "GracePeriod"
          /\ LastStreak(n)[Len(LastStreak(n))].endTime <= n.lastUpdateTime
       \/ /\ LastStreak(n) = <<>>
          /\ Len(n.streaks) >= 2
          /\ n.streaks[Len(n.streaks) - 1] # <<>>
          /\ n.streaks[Len(n.streaks) - 1][Len(n.streaks[Len(n.streaks) - 1])].intervalType
                = "GracePeriod"

\* C18: once a grace period has expired unused, startPomodoro returns
\* Started and creates a Pomodoro with indexInStreak 0 lasting the first
\* pomodoro duration of the rule table.
StartAfterGraceExpiry ==
    (Running /\ GraceExpired(nexus)) =>
        \A k \in 1..Len(nexus.intentions) :
            LET r == startPomodoro(nexus, k)
                new == LastStreak(r.nx)[Len(LastStreak(r.nx))] IN
            /\ r.err = NoError
            /\ r.result = "Started"
            /\ new.intervalType = "Pomodoro"
            /\ new.indexInStreak = 0
            /\ new.startTime = nexus.lastUpdateTime
            /\ new.endTime - new.startTime = streakIntervalDurations[1].seconds

\* C19: evaluatePomodoro raises no error for any pomodoro and any result,
\* and leaves Evaluation(result, lastUpdateTime) as the pomodoro's
\* evaluation, whatever evaluation it had before.
EvaluationNeverRaises ==
    Running =>
        \A ref \in PomodoroRefs(nexus) : \A result \in EvaluationResults :
            \A nextPointLoss \in NextPointLosses(nexus, nexus.lastUpdateTime) :
                LET r == evaluatePomodoro(nexus, ref, result, nextPointLoss) IN
                /\ r.err = NoError
                /\ PomodoroAt(r.nx, ref).evaluation = Evaluation(result, nexus.lastUpdateTime)

\* C20: the Nexus cloneWithoutUI returns has intentions, streaks, sessions,
\* upcoming durations and lastUpdateTime equal to the original's, and the
\* no-op listener in place.
CloneEqualsOriginal ==
    /\ SameModel(cloneWithoutUI(nexus).hypothetical, nexus)
    /\ cloneWithoutUI(nexus).hypothetical.userInterface

\* The Nexus values one call on h can leave behind.
AfterOneCall(h) ==
    {advanceToTime(h, t, NoTime).nx : t \in Times}
    \cup {startPomodoro(h, k).nx : k \in 1..Len(h.intentions)}
    \cup {evaluatePomodoro(h, ref, result, NoTime).nx :
            ref \in PomodoroRefs(h), result \in EvaluatedAs}
    \cup {addIntention(h, NoTime).nx}
    \cup {addSession(h, window[1], window[2]).nx : window \in SessionWindows}

\* The original reads as before whatever call was made on its clone.
IsolatedFrom(original, clone) ==
    /\ clone.nx = original
    /\ clone.listener = "NoUserInterface"
    /\ \A h \in AfterOneCall(clone.hypothetical) :
            Aliased(original, h, clone.shared) = original

AllScoreEvents(n) ==
    UNION {{intentionScoreEvents(n.intentions[k])[j] :
                j \in 1..Len(intentionScoreEvents(n.intentions[k]))} :
           k \in 1..Len(n.intentions)}
    \cup UNION {UNION {{intervalScoreEvents(n.streaks[st][i])[j] :
                            j \in 1..Len(intervalScoreEvents(n.streaks[st][i]))} :
                       i \in 1..Len(n.streaks[st])} :
                st \in 1..Len(n.streaks)}

Yielded(events) == {events[j] : j \in 1..Len(events)}

RECURSIVE SumPoints(_)
SumPoints(events) ==
    IF events = <<>> THEN 0 ELSE Head(events).points + SumPoints(Tail(events))

\* C22: scoreEvents(startTime, endTime) yields every score event of every
\* intention and every interval whose time t has startTime <= t <= endTime,
\* those of an interval that starts at startTime included.
ScoreEventsComplete ==
    \A startTime \in Times : \A endTime \in Times :
        \A event \in AllScoreEvents(nexus) :
            (startTime <= event.time /\ event.time <= endTime) =>
                event \in Yielded(scoreEvents(nexus, startTime, endTime))

\* The events yielded for [from, to] are events of n inside the range, and
\* they sum to 0 when the range holds no event or begins after the cursor.
OnlyWithin(n, all, from, to, events) ==
    /\ \A j \in 1..Len(events) :
          /\ from <= events[j].time /\ events[j].time <= to
          /\ events[j] \in all
    /\ (\A event \in all : ~(from <= event.time /\ event.time <= to)) =>
            SumPoints(events) = 0
    /\ from > n.lastUpdateTime => SumPoints(events) = 0

\* C23: scoreEvents yields no event whose time is outside
\* [startTime, endTime]; over a range in which no event lies, and over every
\* range that begins after the cursor, it yields nothing and the points sum
\* to 0.
NoPointsForEmptyTime ==
    \A startTime \in Times \cup {NoTime} : \A endTime \in Times \cup {NoTime} :
        OnlyWithin(nexus, AllScoreEvents(nexus),
                   IF startTime = NoTime THEN nexus.initialTime ELSE startTime,
                   IF endTime = NoTime THEN nexus.lastUpdateTime ELSE endTime,
                   scoreEvents(nexus, startTime, endTime))

\* Points were scored up to the cursor, and the range after it is empty.
EmptyRangeWitness ==
    /\ last.op = "evaluatePomodoro"
    /\ last.err = NoError
    /\ SumPoints(scoreEvents(nexus, NoTime, NoTime)) > 0
    /\ nexus.lastUpdateTime < horizon
    /\ scoreEvents(nexus, horizon, NoTime) = <<>>
    /\ scoreEvents(nexus, horizon, horizon) = <<>>

\* C24: evaluating a pomodoro that has no evaluation yet raises the sum of
\* the points of scoreEvents() by the points of the result (1.0 for focused).
EvaluationScore ==
    Running =>
        \A ref \in PomodoroRefs(nexus) : \A result \in EvaluationResults :
            LET r == evaluatePomodoro(nexus, ref, result, NoTime) IN
            (PomodoroAt(nexus, ref).evaluation = NoEvaluation /\ r.err = NoError) =>
                SumPoints(scoreEvents(r.nx, NoTime, NoTime))
                    = SumPoints(scoreEvents(nexus, NoTime, NoTime)) + EvaluationPoints(result)

\* C25: an intention that is completed stays completed through every
\* evaluatePomodoro made at or after the end of the pomodoro it evaluates.
CompletionMonotonic ==
    Running =>
        \A k \in 1..Len(nexus.intentions) : completed(nexus, k) =>
            \A ref \in PomodoroRefs(nexus) : \A result \in EvaluationResults :
                nexus.lastUpdateTime >= PomodoroAt(nexus, ref).endTime =>
                    completed(evaluatePomodoro(nexus, ref, result, NoTime).nx, k)

\* Some pomodoro of the k-th intention of n carries an achieved evaluation.
HasAchieved(n, k) ==
    \E ref \in PomodoroRefs(n) :
        /\ PomodoroAt(n, ref).intention = n.intentions[k].id
        /\ PomodoroAt(n, ref).evaluation.result = "achieved"

AvailableIds(n) == {availableIntentions(n)[j].id : j \in 1..Len(availableIntentions(n))}

\* `available` holds exactly the intentions of n that have no achieved
\* pomodoro and are not abandoned, each once, in the order of n.intentions.
ListedInOrder(n, available) ==
    /\ \A k \in 1..Len(n.intentions) :
        (\E j \in 1..Len(available) : available[j] = n.intentions[k])
            <=> (~HasAchieved(n, k) /\ ~n.intentions[k].abandoned)
    /\ \A a \in 1..Len(available) : \A b \in 1..Len(available) :
        /\ \E k \in 1..Len(n.intentions) : available[a] = n.intentions[k]
        /\ a < b => IntentionIndex(n, available[a].id) < IntentionIndex(n, available[b].id)

\* C26: availableIntentions lists, in insertion order, exactly the intentions
\* that have no achieved pomodoro and are not abandoned (also once a further
\* intention was added); an intention is listed before one of its pomodoros
\* is evaluated achieved and not listed right after.
AvailableIntentionsListed ==
    /\ ListedInOrder(nexus, availableIntentions(nexus))
    /\ ListedInOrder(addIntention(nexus, NoTime).nx,
                     availableIntentions(addIntention(nexus, NoTime).nx))
    /\ Running =>
        \A ref \in PomodoroRefs(nexus) :
            PomodoroAt(nexus, ref).intention \in AvailableIds(nexus) =>
                PomodoroAt(nexus, ref).intention
                    \notin AvailableIds(evaluatePomodoro(nexus, ref, "achieved", NoTime).nx)

\* An intention was on offer until its pomodoro was evaluated achieved.
NoLongerAvailableWitness ==
    /\ last.op = "evaluatePomodoro"
    /\ last.evaluation = "achieved"
    /\ last.err = NoError
    /\ PomodoroAt(nexus, last.pomodoro).intention \notin AvailableIds(nexus)
    /\ nexus.intentions # <<>>

EveryIntervalHasLength ==
    \A st \in 1..Len(nexus.streaks) : \A i \in 1..Len(nexus.streaks[st]) :
        nexus.streaks[st][i].endTime > nexus.streaks[st][i].startTime

\* ------------------------------------------------------------------- C29
Count(seq, x) == Cardinality({i \in 1..Len(seq) : seq[i] = x})

\* C29: addSession keeps the session list sorted by non-decreasing start and
\* keeps every added session exactly once: after the call the list holds one
\* more copy of the added session and as many copies of every other session
\* as before, overlapping and equal sessions included.
SessionsSortedAndKept ==
    [][last'.op = "addSession" =>
        /\ \A i \in 1..(Len(nexus'.sessions) - 1) :
              nexus'.sessions[i].start <= nexus'.sessions[i + 1].start
        /\ Len(nexus'.sessions) = Len(nexus.sessions) + 1
        /\ \E window \in SessionPlans :
              \A other \in SessionPlans :
                Count(nexus'.sessions, Session(other[1], other[2])) =
                  Count(nexus.sessions, Session(other[1], other[2]))
                  + (IF other = window THEN 1 ELSE 0)]_vars

\* Three sessions have been added, two of them overlapping, two of them equal.
OverlappingSessionsWitness ==
    /\ last.op = "addSession"
    /\ Len(nexus.sessions) = MaxPlanned
    /\ \E i \in 1..(Len(nexus.sessions) - 1) :
          /\ nexus.sessions[i].start < nexus.sessions[i + 1].start
          /\ nexus.sessions[i + 1].start < nexus.sessions[i].end
    /\ \E i \in 1..(Len(nexus.sessions) - 1) : nexus.sessions[i] = nexus.sessions[i + 1]

\* ------------------------------------------------------------------- C30
\* C30: one advanceToTime that jumps over the end of the active Pomodoro P and
\* over the whole Break after it appends that Break and then the GracePeriod
\* that follows it, in this order, ends both expired intervals (intervalEnd
\* for P and for the Break) and starts both new ones, and stops at the
\* GracePeriod, which is the active interval afterwards.
MultiBoundaryCatchUp ==
    (/\ Running
     /\ ActiveInterval(nexus).intervalType = "Pomodoro"
     /\ Len(nexus.upcomingDurations) >= 2
     /\ nexus.upcomingDurations[1].intervalType = "Break"
     /\ nexus.upcomingDurations[2].intervalType = "Pomodoro") =>
        LET P == ActiveInterval(nexus)
            brk == Break(P.endTime, P.endTime + nexus.upcomingDurations[1].seconds)
            grace == GracePeriod(brk.endTime,
                                 brk.endTime + nexus.upcomingDurations[2].seconds)
            r == advanceToTime(nexus, brk.endTime, NoTime) IN
        /\ r.err = NoError
        /\ LastStreak(r.nx) = LastStreak(nexus) \o <<brk, grace>>
        /\ ActiveInterval(r.nx) = grace
        /\ Cardinality({i \in 1..Len(r.notes) : r.notes[i].kind = "intervalEnd"}) = 2
        /\ Cardinality({i \in 1..Len(r.notes) : r.notes[i].kind = "intervalStart"}) = 2

\* ------------------------------------------------------------------- C31
\* The positions in notes of the listener calls of one kind.
Positions(notes, kind) == {j \in 1..Len(notes) : notes[j].kind = kind}

\* C31: in the listener calls of one advanceToTime(t), no interval is started
\* twice, an interval the call created is started before any progress is
\* reported for it, and when the interval that was active expires (t is at or
\* past its end) the calls hold intervalProgress(1.0) directly followed by
\* intervalEnd, both before the intervalStart of its successor.
NotificationOrdering ==
    Running =>
        \A t \in Times : t >= nexus.lastUpdateTime =>
            LET active == ActiveInterval(nexus)
                r == advanceToTime(nexus, t, NoTime)
                notes == r.notes
                starts == Positions(notes, "intervalStart") IN
            /\ \A a \in starts : \A b \in starts :
                    notes[a].interval = notes[b].interval => a = b
            /\ \A a \in starts :
                    (ActiveInterval(r.nx) = notes[a].interval /\ r.err = NoError) =>
                        /\ a < Len(notes)
                        /\ notes[a + 1].kind = "intervalProgress"
            /\ (active # NoInterval /\ t >= active.endTime) =>
                    \E j \in Positions(notes, "intervalProgress") :
                        /\ notes[j].num = notes[j].den
                        /\ j < Len(notes)
                        /\ notes[j + 1] = IntervalEnd
                        /\ \A a \in starts : a > j + 1

\* ------------------------------------------------------------------- C32
\* C32: every fraction the last call passed to intervalProgress lies in
\* [0, 1] and has a positive denominator, and the call did not divide by
\* zero.
ProgressIsAFraction ==
    /\ last.err # ZeroDivision
    /\ \A j \in Positions(last.notes, "intervalProgress") :
        /\ last.notes[j].den > 0
        /\ 0 <= last.notes[j].num
        /\ last.notes[j].num <= last.notes[j].den

\* An advance reported an interval partly elapsed.
PartialProgressWitness ==
    /\ last.op = "advanceToTime"
    /\ last.err = NoError
    /\ \E j \in Positions(last.notes, "intervalProgress") :
        /\ 0 < last.notes[j].num
        /\ last.notes[j].num < last.notes[j].den

\* ------------------------------------------------------------------- C33
\* The loop of one advanceToTime runs its body at most once for the interval
\* active at entry and once for every interval it then materializes.
LoopBound == Len(streakIntervalDurations) + 2

\* C33: every call of advanceToTime terminates, the one evaluatePomodoro makes
\* at the unchanged cursor included: a call that has not returned can always
\* take its next step, and it has made at most LoopBound loop iterations.
AdvanceTerminates ==
    last.err = Pending =>
        /\ ENABLED Iterate
        /\ last.iterations <= LoopBound
        /\ last.op \in {"advanceToTime", "evaluatePomodoro"}

\* A call is inside its loop, the body having run once.
LoopedOnceWitness ==
    /\ last.err = Pending
    /\ last.op = "advanceToTime"
    /\ last.iterations = 1
    /\ loopExits(ActiveInterval(nexus), last.previousInterval)

\* ------------------------------------------------------------------- C34
\* C34: no advanceToTime(t) with t >= lastUpdateTime fails: when a duration
\* is still upcoming, _makeNextInterval is given the interval to chain on, so
\* its assertion holds, also on the first advance after the cursor has moved
\* past the end of a Pomodoro or Break.
MakeNextIntervalAssertionHolds ==
    Running =>
        \A t \in Times : t >= nexus.lastUpdateTime =>
            /\ advanceToTime(nexus, t, NoTime).err # NoPreviousInterval
            /\ advanceToTime(nexus, t, NoTime).err = NoError

\* ------------------------------------------------------------------- C35
\* The intervals of a streak with what replay has to reproduce of them.
Timeline(streaks) ==
    [st \in DOMAIN streaks |->
        [i \in DOMAIN streaks[st] |->
            [intervalType |-> streaks[st][i].intervalType,
             startTime |-> streaks[st][i].startTime,
             endTime |-> streaks[st][i].endTime]]]

UnexpiredPomodoroIsActive ==
    /\ last.err # NotActive
    /\ \A ref \in PomodoroRefs(nexus) :
        PomodoroAt(nexus, ref).endTime > nexus.lastUpdateTime =>
            /\ ref.streak = Len(nexus.streaks)
            /\ ref.index = Len(nexus.streaks[ref.streak])
            /\ ActiveInterval(nexus) = PomodoroAt(nexus, ref)
            /\ evaluatePomodoro(nexus, ref, "achieved", NoTime).err # NotActive

\* An expired Pomodoro is followed by a running one that was just evaluated.
SecondPomodoroRunningWitness ==
    /\ last.op = "evaluatePomodoro"
    /\ last.err = NoError
    /\ PomodoroAt(nexus, last.pomodoro).endTime > nexus.lastUpdateTime
    /\ \E ref \in PomodoroRefs(nexus) :
        PomodoroAt(nexus, ref).endTime <= nexus.lastUpdateTime

\* ------------------------------------------------------------------- C37
\* The pomodoros listed by the intentions of n, as positions in the streaks.
Listed(n) ==
    UNION {{n.intentions[k].pomodoros[j] : j \in 1..Len(n.intentions[k].pomodoros)} :
           k \in 1..Len(n.intentions)}

\* Every Pomodoro of a streak is listed once, by the intention it was started
\* with and by no other, and everything listed is a Pomodoro of a streak.
Consistent(n) ==
    /\ \A ref \in PomodoroRefs(n) : \A k \in 1..Len(n.intentions) :
        Count(n.intentions[k].pomodoros, ref) =
            IF n.intentions[k].id = PomodoroAt(n, ref).intention THEN 1 ELSE 0
    /\ \A ref \in PomodoroRefs(n) : IntentionIndex(n, PomodoroAt(n, ref).intention) # 0
    /\ Listed(n) \subseteq PomodoroRefs(n)

\* startPomodoro's outcome r for the k-th intention of n: an accepted start
\* adds one Pomodoro to the streaks and lists it with the intention, a
\* rejected one adds nothing to either.
AddsToBoth(n, k, r) ==
    LET added == IF r.result \in {"Started", "Continued"} THEN 1 ELSE 0 IN
    /\ Cardinality(PomodoroRefs(r.nx)) = Cardinality(PomodoroRefs(n)) + added
    /\ Len(r.nx.intentions[k].pomodoros) = Len(n.intentions[k].pomodoros) + added
    /\ Consistent(r.nx)

\* C37: each Pomodoro of a streak appears exactly once in the pomodoros of
\* the intention it was started with, each listed pomodoro is exactly one
\* Pomodoro of one streak, and startPomodoro adds a Pomodoro to both when it
\* accepts and to neither when it rejects.
PomodoroIntentionConsistency ==
    /\ Consistent(nexus)
    /\ Running => \A k \in 1..Len(nexus.intentions) :
            AddsToBoth(nexus, k, startPomodoro(nexus, k))

\* An intention lists two pomodoros, the second one just started.
TwoPomodorosListedWitness ==
    /\ last.op = "startPomodoro"
    /\ last.result \in {"Started", "Continued"}
    /\ \E k \in 1..Len(nexus.intentions) : Len(nexus.intentions[k].pomodoros) = 2
    /\ Cardinality(PomodoroRefs(nexus)) = 2

\* ------------------------------------------------------------------- C38
\* The ids of the intentions of n, in list order.
IntentionIds(n) == [k \in DOMAIN n.intentions |-> n.intentions[k].id]

CompletedStreaksImmutable ==
    [][/\ Len(nexus'.streaks) >= Len(nexus.streaks)
       /\ \A st \in 1..(Len(nexus.streaks) - 1) :
            Timeline(nexus'.streaks)[st] = Timeline(nexus.streaks)[st]]_vars

\* A pomodoro was started in the second streak, the first one being history.
NewStreakGrowsWitness ==
    /\ last.op = "startPomodoro"
    /\ last.result = "Started"
    /\ Len(nexus.streaks) = 2
    /\ nexus.streaks[1] = SavedStreak(Len(nexus.streaks[1]))
    /\ Len(nexus.streaks[2]) >= 1

\* ------------------------------------------------------------------- C40
\* The call with outcome r made on n caused no interval transition: streaks,
\* active interval, upcoming durations, cursor and listener are as before,
\* and the listener was told nothing.
NoTransition(n, r) ==
    /\ r.err = NoError
    /\ r.notes = <<>>
    /\ r.nx.streaks = n.streaks
    /\ ActiveInterval(r.nx) = ActiveInterval(n)
    /\ r.nx.upcomingDurations = n.upcomingDurations
    /\ r.nx.lastUpdateTime = n.lastUpdateTime
    /\ r.nx.userInterface = n.userInterface

\* The StartPrompt of a session that covers the cursor of an idle n is made
\* by the next advanceToTime, here one to the cursor itself.
PromptedByAdvance(n, nextPointLoss) ==
    (/\ ActiveInterval(n) = NoInterval
     /\ n.upcomingDurations = <<>>
     /\ nextPointLoss > n.lastUpdateTime) =>
        LastStreak(advanceToTime(n, n.lastUpdateTime, nextPointLoss).nx)
            = Append(LastStreak(n), StartPrompt(n.lastUpdateTime, nextPointLoss))

\* C40: addIntention and addSession cause no interval transition and no
\* notification; a session added around the cursor gets its StartPrompt only
\* from the next advanceToTime.
OnlyThreeCallsTransition ==
    Running =>
        /\ \A estimate \in {NoTime, Tick} :
            NoTransition(nexus, addIntention(nexus, estimate))
        /\ \A startTime \in Times : \A endTime \in Times :
            startTime < endTime =>
                NoTransition(nexus, addSession(nexus, startTime, endTime))
        /\ nexus.sessions = <<>> =>
            PromptedByAdvance(addSession(nexus, nexus.lastUpdateTime,
                                         nexus.lastUpdateTime + Tick + Tick).nx,
                              nexus.lastUpdateTime + Tick)

\* A session was added around the cursor of an idle Nexus: no prompt yet.
SessionAddedWhileIdleWitness ==
    /\ last.op = "addSession"
    /\ last.notes = <<>>
    /\ ActiveInterval(nexus) = NoInterval
    /\ nexus.upcomingDurations = <<>>
    /\ \E k \in 1..Len(nexus.sessions) :
        /\ nexus.sessions[k].start <= nexus.lastUpdateTime
        /\ nexus.lastUpdateTime < nexus.sessions[k].end
    /\ \A i \in 1..Len(LastStreak(nexus)) :
        LastStreak(nexus)[i].intervalType # "StartPrompt"

====
